---- MODULE Spec2Model ----
(***************************************************************************)
(* Theo Jansen linkage simulator (codigo/simulador_jansen_gui.py).         *)
(*                                                                         *)
(* The model covers the kinematic core: the link-length configuration of   *)
(* MecanismoJansen, the joint solver resolver_cinematica, the trajectory   *)
(* sampler calcular_trayectoria and the gait metrics computed by           *)
(* SimuladorJansenGUI.actualizar_informacion; and the animation controls   *)
(* of SimuladorJansenGUI (play/pause, reset, timer tick, angle slider).    *)
(*                                                                         *)
(* Numbers.  A Python float is either NaN or a finite value.  Finite       *)
(* values are kept in fixed point with one decimal (the spin boxes use one *)
(* decimal): Fin(v) stands for v/10, so 38.0 mm is Fin(380) and the scale  *)
(* 5.0 is Fin(50).  Angles are kept exactly, as fractions of a turn.       *)
(***************************************************************************)
EXTENDS Integers, Sequences, FiniteSets, TLC

VARIABLES
    L,            \* MecanismoJansen.L: raw lengths, identifier -> float
    escala,       \* MecanismoJansen.escala
    L_scaled,     \* MecanismoJansen.L_scaled
    llamada,      \* the last setter call: [op, nombre, valor]
    informe,      \* what that call reported to its caller
    antes,        \* <<L, escala, L_scaled>> as they were when that call began
    nUpd,         \* number of configuration handlers run so far
    pcr,          \* restaurar_originales: position in its loop, 0 when not running
    \* one call of resolver_cinematica
    theta,        \* its argument, a fraction of a turn <<num, den>>
    lib,          \* how scipy's fsolve behaves in this run (fixed, see LibOut)
    puntos,       \* the returned dict, SinPuntos before the return or on a raise
    ier,          \* per joint, how its root-find ended (fsolve's discarded ier)
    pcs,          \* "llamar" | "ret" | "raise" | "-"
    \* one call of calcular_trayectoria
    pct,          \* "idle" | "loop"
    n_puntos,     \* its argument
    thetas,       \* np.linspace(0, 2*np.pi, n_puntos)
    idx,          \* position of the for loop in thetas (1-based)
    trayectoria,  \* the list built so far, later the returned array
    usados,       \* per sample, the L_scaled and the angle its solve read
    fallos,       \* per sample, how its solve ended: "ok" | "noconv" | "raise"
    updIni,       \* nUpd when the sweep began
    ultimo,       \* a sweep that returned, kept to compare: [n, tray, ini]
    \* one call of actualizar_informacion
    longitud_paso,
    altura_paso,
    pcm,          \* "llamar" | "ret" | "-"
    \* the animation controls of SimuladorJansenGUI
    theta_actual,        \* the crank angle shown, a float of degrees (see Angulo)
    animacion_activa,
    slider_angulo,       \* value of the angle slider, whole degrees
    slider_habilitado,   \* whether the user can move it
    label_angulo,        \* the number on the angle label
    timer_activo,        \* whether the QTimer is running
    timer_intervalo,     \* its interval in ms, 0 before its first start
    velocidad_animacion,
    dibujado,            \* theta_actual at the last actualizar_grafico
    evento,              \* the handler Qt ran last
    senal                \* the valueChanged signal that handler raised, if any

cfgVars == <<L, escala, L_scaled>>
histVars == <<llamada, informe, antes, nUpd>>
solveVars == <<theta, lib, puntos, ier, pcs>>
sweepVars == <<pct, n_puntos, thetas, idx, trayectoria, usados, fallos, updIni,
               ultimo>>
metricVars == <<longitud_paso, altura_paso, pcm>>
animVars == <<theta_actual, animacion_activa, slider_angulo, slider_habilitado,
              label_angulo, timer_activo, timer_intervalo, velocidad_animacion,
              dibujado, evento, senal>>
vars == <<L, escala, L_scaled, llamada, informe, antes, nUpd, pcr,
          theta, lib, puntos, ier, pcs,
          pct, n_puntos, thetas, idx, trayectoria, usados, fallos, updIni,
          ultimo, longitud_paso, altura_paso, pcm,
          theta_actual, animacion_activa, slider_angulo, slider_habilitado,
          label_angulo, timer_activo, timer_intervalo, velocidad_animacion,
          dibujado, evento, senal>>

----------------------------------------------------------------------------
(* Bounds of the model *)

\* configuration handlers (setter calls, restores) in one run
MaxUpd == 2

\* largest n_puntos handed to calcular_trayectoria
MaxCount == 3

\* longest trajectory handed to actualizar_informacion on its own
MaxLen == 3

----------------------------------------------------------------------------
(* Floats *)

Fin(v) == [k |-> "fin", v |-> v]
NaN == [k |-> "nan", v |-> 0]

IsNaN(x) == x.k = "nan"

\* x * y
Mul(x, y) == IF IsNaN(x) \/ IsNaN(y) THEN NaN ELSE Fin((x.v * y.v) \div 10)

\* x + y, x - y, -x, x / 2, x / 10
Add(x, y) == IF IsNaN(x) \/ IsNaN(y) THEN NaN ELSE Fin(x.v + y.v)
Sub(x, y) == IF IsNaN(x) \/ IsNaN(y) THEN NaN ELSE Fin(x.v - y.v)
Neg(x) == IF IsNaN(x) THEN NaN ELSE Fin(0 - x.v)
Div2(x) == IF IsNaN(x) THEN NaN ELSE Fin(x.v \div 2)
Div10(x) == IF IsNaN(x) THEN NaN ELSE Fin(x.v \div 10)

\* a value a setter must refuse according to the specification:
\* non-finite, or not strictly positive
Invalido(x) == IsNaN(x) \/ x.v <= 0

\* points are np.array([x, y])
PAdd(p, q) == <<Add(p[1], q[1]), Add(p[2], q[2])>>
HasNaN(p) == IsNaN(p[1]) \/ IsNaN(p[2])

\* np.array([np.nan, np.nan])
NaNPoint == <<NaN, NaN>>

----------------------------------------------------------------------------
(* Angles: <<num, den>> is num/den of a turn (2*pi) *)

RatEq(s, t) == s[1] * t[2] = t[1] * s[2]
RatSub(s, t) == <<s[1] * t[2] - t[1] * s[2], s[2] * t[2]>>

\* the same crank pose: the angles differ by a whole number of turns
MismaPose(s, t) == (s[1] * t[2] - t[1] * s[2]) % (s[2] * t[2]) = 0

\* np.cos and np.sin in thousandths, on the multiples of a twelfth of a turn
\* (every angle np.linspace(0, 2*pi, n) yields for n - 1 in {1, 2, 3, 4, 6, 12})
Cos1000 == <<1000, 866, 500, 0, -500, -866, -1000, -866, -500, 0, 500, 866>>
Sin1000 == <<0, 500, 866, 1000, 866, 500, 0, -500, -866, -1000, -866, -500>>
Doceavo(t) == ((t[1] * 12) \div t[2]) % 12

\* x * np.cos(t), x * np.sin(t)
MulCos(x, t) == IF IsNaN(x) THEN NaN ELSE Fin((x.v * Cos1000[Doceavo(t) + 1]) \div 1000)
MulSin(x, t) == IF IsNaN(x) THEN NaN ELSE Fin((x.v * Sin1000[Doceavo(t) + 1]) \div 1000)

\* np.linspace(0, 2*np.pi, n, endpoint=False)
linspace_sin_extremo(n) == [i \in 1..n |-> <<i - 1, n>>]

\* np.linspace(0, 2*np.pi, n): endpoint=True is numpy's default, so the step is
\* a turn over n - 1 and the last sample is the whole turn; n = 1 gives [0.]
linspace(n) == [i \in 1..n |-> IF n = 1 THEN <<0, 1>> ELSE <<i - 1, n - 1>>]

----------------------------------------------------------------------------
(* Linkage configuration *)

Ids == {"a", "b", "c", "d", "e", "f", "g", "h", "m", "n"}

\* the proportions set by MecanismoJansen.__init__
Proporciones ==
    [a |-> Fin(380), b |-> Fin(415), c |-> Fin(393), d |-> Fin(401), e |-> Fin(558),
     f |-> Fin(394), g |-> Fin(367), h |-> Fin(657), m |-> Fin(78),  n |-> Fin(250)]

EscalaInicial == Fin(50)

\* the loop order of restaurar_originales (dict order of proporciones_originales)
ClavesRestaurar == <<"a", "b", "c", "d", "e", "f", "g", "h">>

\* values handed to MecanismoJansen.actualizar_longitud: the spin box bounds
\* 10.0 and 200.0, and values the specification wants refused
Valores == {Fin(100), Fin(2000), Fin(0), Fin(-10), NaN}

\* values handed to actualizar_escala: the spin box bounds 1.0 and 10.0, and
\* values the specification wants refused
Escalas == {Fin(10), Fin(100), Fin(0), Fin(-10), NaN}

\* {k: v * self.escala for k, v in self.L.items()}
aplicar_escala(Lr, esc) == [k \in DOMAIN Lr |-> Mul(Lr[k], esc)]

SinLlamada == [op |-> "ninguna", nombre |-> "", valor |-> Fin(0)]

\* MecanismoJansen.__init__
InitConfig ==
    /\ L = Proporciones
    /\ escala = EscalaInicial
    /\ L_scaled = aplicar_escala(Proporciones, EscalaInicial)
    /\ llamada = SinLlamada
    /\ informe = "ninguno"
    /\ antes = <<Proporciones, EscalaInicial, aplicar_escala(Proporciones, EscalaInicial)>>
    /\ nUpd = 0
    /\ pcr = 0

\* kept by every setter: the call is recorded, and it returns None
Registrar(op, nombre, valor) ==
    /\ llamada' = [op |-> op, nombre |-> nombre, valor |-> valor]
    /\ informe' = "None"
    /\ antes' = <<L, escala, L_scaled>>
    /\ nUpd' = nUpd + 1

\* MecanismoJansen.actualizar_longitud(nombre, valor)
actualizar_longitud(nombre, valor) ==
    /\ pcr = 0
    /\ nUpd < MaxUpd
    /\ L' = [L EXCEPT ![nombre] = valor]
    /\ L_scaled' = aplicar_escala(L', escala)
    /\ Registrar("actualizar_longitud", nombre, valor)
    /\ UNCHANGED <<escala, pcr, solveVars, sweepVars, metricVars, animVars>>

\* a scale update that forgets to call aplicar_escala
actualizar_escala_sin_aplicar(valor) ==
    /\ pcr = 0
    /\ nUpd < MaxUpd
    /\ escala' = valor
    /\ Registrar("actualizar_escala", "", valor)
    /\ UNCHANGED <<L, L_scaled, pcr, solveVars, sweepVars, metricVars, animVars>>

\* SimuladorJansenGUI.actualizar_escala(valor)
actualizar_escala(valor) ==
    /\ pcr = 0
    /\ nUpd < MaxUpd
    /\ escala' = valor
    /\ L_scaled' = aplicar_escala(L, escala')
    /\ Registrar("actualizar_escala", "", valor)
    /\ UNCHANGED <<L, pcr, solveVars, sweepVars, metricVars, animVars>>

\* SimuladorJansenGUI.restaurar_originales: the handler enters its loop
restaurar_originales ==
    /\ pcr = 0
    /\ nUpd < MaxUpd
    /\ pcr' = 1
    /\ Registrar("restaurar_originales", "", Fin(0))
    /\ UNCHANGED <<L, escala, L_scaled, solveVars, sweepVars, metricVars, animVars>>

\* one turn of the loop of restaurar_originales: spinbox.setValue and
\* mecanismo.actualizar_longitud(clave, valor) for the next key; the redraw
\* that the spin box signal triggers reads the configuration this turn leaves
restaurar_paso ==
    /\ pcr > 0
    /\ LET clave == ClavesRestaurar[pcr] IN
        /\ L' = [L EXCEPT ![clave] = Proporciones[clave]]
        /\ L_scaled' = aplicar_escala(L', escala)
    /\ pcr' = IF pcr = Len(ClavesRestaurar) THEN 0 ELSE pcr + 1
    /\ UNCHANGED <<escala, histVars, solveVars, sweepVars, metricVars, animVars>>

----------------------------------------------------------------------------
(* Joint solver *)

Joints == {"D", "E", "F"}
Nombres == {"A", "B", "C", "D", "E", "F"}

Origen == <<Fin(0), Fin(0)>>

\* scipy.optimize.fsolve is not part of the repository.  What one call does is
\* described by an outcome [est, dx]: it converges ("conv"), gives up ("noconv",
\* which fsolve reports by a warning and by the ier the code never asks for), or
\* raises; dx is the displacement from the initial guess to the point returned.
Paso == [D |-> <<Fin(-120), Fin(300)>>, E |-> <<Fin(-50), Fin(-80)>>,
         F |-> <<Fin(30), Fin(-200)>>]
Converge(j) == [est |-> "conv", dx |-> Paso[j]]
NoConverge == [est |-> "noconv", dx |-> <<Fin(10), Fin(-10)>>]
Lanza == [est |-> "raise", dx |-> Origen]
Resultados(j) == {Converge(j), NoConverge, Lanza}
TodoConverge == [j \in Joints |-> Converge(j)]

\* the behaviour of fsolve in one run is a fixed function of the problem it is
\* given: lib.out at the angles in lib.donde, convergence everywhere else
LibOut(lb, t) == IF \E s \in lb.donde : RatEq(s, t) THEN lb.out ELSE TodoConverge

\* the equations |X - P| = r1, |X - Q| = r2 evaluate to NaN at every X
EcNaN(P, r1, Q, r2) == HasNaN(P) \/ IsNaN(r1) \/ HasNaN(Q) \/ IsNaN(r2)

\* fsolve(ecuaciones, x0) for the equations |X - P| = r1, |X - Q| = r2.
\* A coordinate that is NaN in x0 stays NaN (every iterate is x0 plus a step),
\* and with NaN residuals no step is accepted (every comparison is false), so
\* x0 itself comes back, not converged.
fsolve(P, r1, Q, r2, x0, o) ==
    IF o.est = "raise" THEN [exc |-> TRUE, x |-> x0, ier |-> "raise"]
    ELSE IF EcNaN(P, r1, Q, r2) \/ HasNaN(x0)
         THEN [exc |-> FALSE, x |-> x0, ier |-> "noconv"]
         ELSE [exc |-> FALSE, x |-> PAdd(x0, o.dx), ier |-> o.est]

SinPuntos == [j \in {} |-> Origen]
SinIer == [j \in Joints |-> "-"]

\* resolver_cinematica with the guess of E taken from the crank tip C
resolver_cinematica_E_desde_C(Ls, t, o) ==
    LET A == Origen
        B == <<Ls["m"], Ls["n"]>>
        C == PAdd(A, <<MulCos(Ls["a"], t), MulSin(Ls["a"], t)>>)
        D_init == PAdd(C, <<Ls["b"], Fin(0)>>)
        D_sol == fsolve(C, Ls["b"], B, Ls["c"], D_init, o["D"])
        D == D_sol.x
        E_init == PAdd(C, <<Ls["d"], Neg(Div2(Ls["d"]))>>)
        E_sol == fsolve(D, Ls["d"], B, Ls["e"], E_init, o["E"])
        E == E_sol.x
        F_init == PAdd(E, <<Ls["f"], Neg(Ls["f"])>>)
        F_sol == fsolve(E, Ls["f"], D, Ls["g"], F_init, o["F"])
        F == F_sol.x
    IN  IF D_sol.exc
        THEN [exc |-> TRUE, puntos |-> SinPuntos,
              ier |-> [SinIer EXCEPT !["D"] = "raise"]]
        ELSE IF E_sol.exc
        THEN [exc |-> TRUE, puntos |-> SinPuntos,
              ier |-> [SinIer EXCEPT !["D"] = D_sol.ier, !["E"] = "raise"]]
        ELSE IF F_sol.exc
        THEN [exc |-> TRUE, puntos |-> SinPuntos,
              ier |-> [D |-> D_sol.ier, E |-> E_sol.ier, F |-> "raise"]]
        ELSE [exc |-> FALSE,
              puntos |-> [A |-> A, B |-> B, C |-> C, D |-> D, E |-> E, F |-> F],
              ier |-> [D |-> D_sol.ier, E |-> E_sol.ier, F |-> F_sol.ier]]

\* MecanismoJansen.resolver_cinematica(theta), reading L = self.L_scaled = Ls;
\* o[j] is what fsolve does on the system of joint j.  The result is the
\* returned dict, or the exception that left the call (exc).
resolver_cinematica(Ls, t, o) ==
    LET A == Origen
        B == <<Ls["m"], Ls["n"]>>
        C == PAdd(A, <<MulCos(Ls["a"], t), MulSin(Ls["a"], t)>>)
        D_init == PAdd(C, <<Ls["b"], Fin(0)>>)
        D_sol == fsolve(C, Ls["b"], B, Ls["c"], D_init, o["D"])
        D == D_sol.x
        E_init == PAdd(D, <<Ls["d"], Neg(Div2(Ls["d"]))>>)
        E_sol == fsolve(D, Ls["d"], B, Ls["e"], E_init, o["E"])
        E == E_sol.x
        F_init == PAdd(E, <<Ls["f"], Neg(Ls["f"])>>)
        F_sol == fsolve(E, Ls["f"], D, Ls["g"], F_init, o["F"])
        F == F_sol.x
    IN  IF D_sol.exc
        THEN [exc |-> TRUE, puntos |-> SinPuntos,
              ier |-> [SinIer EXCEPT !["D"] = "raise"]]
        ELSE IF E_sol.exc
        THEN [exc |-> TRUE, puntos |-> SinPuntos,
              ier |-> [SinIer EXCEPT !["D"] = D_sol.ier, !["E"] = "raise"]]
        ELSE IF F_sol.exc
        THEN [exc |-> TRUE, puntos |-> SinPuntos,
              ier |-> [D |-> D_sol.ier, E |-> E_sol.ier, F |-> "raise"]]
        ELSE [exc |-> FALSE,
              puntos |-> [A |-> A, B |-> B, C |-> C, D |-> D, E |-> E, F |-> F],
              ier |-> [D |-> D_sol.ier, E |-> E_sol.ier, F |-> F_sol.ier]]

\* a caller's resolver_cinematica(theta): the call returns or raises
Resolver ==
    /\ pcs = "llamar"
    /\ LET r == resolver_cinematica(L_scaled, theta, LibOut(lib, theta)) IN
        /\ puntos' = r.puntos
        /\ ier' = r.ier
        /\ pcs' = IF r.exc THEN "raise" ELSE "ret"
    /\ UNCHANGED <<cfgVars, histVars, pcr, theta, lib, sweepVars, metricVars, animVars>>

----------------------------------------------------------------------------
(* Trajectory sampler *)

\* no sweep is kept yet
Nada == [n |-> 0, tray |-> <<>>, ini |-> 0]

\* how the solve of one sample ended
Fallo(r) == IF r.exc THEN "raise"
            ELSE IF \E j \in Joints : r.ier[j] # "conv" THEN "noconv" ELSE "ok"

\* calcular_trayectoria(n_puntos): thetas = np.linspace(...); trayectoria = []
calcular_trayectoria(n) ==
    /\ pct = "idle"
    /\ pcr = 0
    /\ pct' = "loop"
    /\ n_puntos' = n
    /\ thetas' = linspace(n)
    /\ idx' = 1
    /\ trayectoria' = <<>>
    /\ usados' = <<>>
    /\ fallos' = <<>>
    /\ updIni' = nUpd
    /\ UNCHANGED <<ultimo, cfgVars, histVars, pcr, solveVars, metricVars, animVars>>

\* a solve that writes through its alias L = self.L_scaled
paso_trayectoria_alias ==
    /\ pct = "loop"
    /\ idx <= Len(thetas)
    /\ LET t == thetas[idx]
           r == resolver_cinematica(L_scaled, t, LibOut(lib, t))
       IN  /\ trayectoria' = Append(trayectoria,
                                    IF r.exc THEN NaNPoint ELSE r.puntos["F"])
           /\ usados' = Append(usados, [L |-> L_scaled, t |-> t])
           /\ fallos' = Append(fallos, Fallo(r))
    /\ idx' = idx + 1
    /\ L_scaled' = [L_scaled EXCEPT !["d"] = Div2(@)]
    /\ UNCHANGED <<pct, n_puntos, thetas, updIni, ultimo,
                   L, escala, histVars, pcr, solveVars, metricVars, animVars>>

\* one turn of "for theta in thetas": the solve reads self.L_scaled as it is
\* now; the foot is appended, or the NaN pair when the solve raised
paso_trayectoria ==
    /\ pct = "loop"
    /\ idx <= Len(thetas)
    /\ LET t == thetas[idx]
           r == resolver_cinematica(L_scaled, t, LibOut(lib, t))
       IN  /\ trayectoria' = Append(trayectoria,
                                    IF r.exc THEN NaNPoint ELSE r.puntos["F"])
           /\ usados' = Append(usados, [L |-> L_scaled, t |-> t])
           /\ fallos' = Append(fallos, Fallo(r))
    /\ idx' = idx + 1
    /\ UNCHANGED <<pct, n_puntos, thetas, updIni, ultimo,
                   cfgVars, histVars, pcr, solveVars, metricVars, animVars>>

\* return np.array(trayectoria): the locals of the call are gone.  The caller
\* keeps the returned array, or goes on holding one returned earlier.
retorno_trayectoria ==
    /\ pct = "loop"
    /\ idx > Len(thetas)
    /\ pct' = "idle"
    /\ \/ ultimo' = [n |-> n_puntos, tray |-> trayectoria, ini |-> updIni]
       \/ ultimo # Nada /\ UNCHANGED ultimo
    /\ n_puntos' = 0
    /\ thetas' = <<>>
    /\ idx' = 0
    /\ trayectoria' = <<>>
    /\ usados' = <<>>
    /\ fallos' = <<>>
    /\ updIni' = nUpd
    /\ UNCHANGED <<cfgVars, histVars, pcr, solveVars, metricVars, animVars>>

----------------------------------------------------------------------------
(* Gait metrics *)

Columna(tr, c) == [i \in 1..Len(tr) |-> tr[i][c]]

\* the larger / smaller of two floats, a NaN giving way to the other
FMax(x, y) == IF IsNaN(x) THEN y ELSE IF IsNaN(y) THEN x
              ELSE IF x.v >= y.v THEN x ELSE y
FMin(x, y) == IF IsNaN(x) THEN y ELSE IF IsNaN(y) THEN x
              ELSE IF x.v <= y.v THEN x ELSE y

RECURSIVE FoldMax(_, _)
FoldMax(col, i) == IF i = 0 THEN NaN ELSE FMax(FoldMax(col, i - 1), col[i])
RECURSIVE FoldMin(_, _)
FoldMin(col, i) == IF i = 0 THEN NaN ELSE FMin(FoldMin(col, i - 1), col[i])

\* np.max: a NaN anywhere in the column makes the result NaN
max_con_nan(col) == IF \E i \in DOMAIN col : IsNaN(col[i]) THEN NaN
                    ELSE FoldMax(col, Len(col))

\* np.nanmax, np.nanmin: NaN entries are skipped; an all-NaN column gives NaN
\* (with a RuntimeWarning)
nanmax(col) == FoldMax(col, Len(col))
nanmin(col) == FoldMin(col, Len(col))

\* (np.nanmax(trayectoria[:, 0]) - np.nanmin(trayectoria[:, 0])) / 10
longitud(tr) == Div10(Sub(nanmax(Columna(tr, 1)), nanmin(Columna(tr, 1))))

\* np.nanmax(trayectoria[:, 1]) / 10
altura(tr) == Div10(nanmax(Columna(tr, 2)))

\* SimuladorJansenGUI.actualizar_informacion(trayectoria, pie): the two metrics
actualizar_informacion ==
    /\ pcm = "llamar"
    /\ longitud_paso' = longitud(trayectoria)
    /\ altura_paso' = altura(trayectoria)
    /\ pcm' = "ret"
    /\ UNCHANGED <<cfgVars, histVars, pcr, solveVars, sweepVars, animVars>>

----------------------------------------------------------------------------
(* Animation controls of SimuladorJansenGUI *)

(* theta_actual is a float of radians.  It is kept as [g, e]: g whole degrees  *)
(* and e the sign of the rounding error against the float np.deg2rad(g).  The *)
(* values the code assigns (0, np.deg2rad(valor)) have e = 0; a float sum can *)
(* land below, on or above the float of its whole degree.                     *)
SliderMin == 0
SliderMax == 360
PasoGrados == 2
VelocidadInicial == 50

deg2rad(v) == [g |-> v, e |-> 0]
Cero == deg2rad(0)

\* 2 * np.pi, the same float as np.deg2rad(360)
DosPi == deg2rad(SliderMax)

\* a >= b on floats
MayorIgual(a, b) == a.g > b.g \/ (a.g = b.g /\ a.e >= b.e)

\* the floats a + np.deg2rad(paso) can round to
Suma(a, paso) == {[g |-> a.g + paso, e |-> s] : s \in {-1, 0, 1}}

\* int(np.rad2deg(a)): the product with 180/pi lands on either side of the
\* whole degree and int() truncates
rad2deg_int(a) == IF a = Cero THEN {0} ELSE {a.g - 1, a.g}

\* QSlider.setValue keeps the value within the range of the slider
Acotar(v) == IF v < SliderMin THEN SliderMin ELSE IF v > SliderMax THEN SliderMax ELSE v

SinSenal == [emitida |-> FALSE, valor |-> 0, activa |-> FALSE,
             antes |-> <<Cero, 0>>, despues |-> <<Cero, 0>>]

\* a valueChanged(valor) delivered to its slot: what the slot found and left
Senal(valor, activa, e0, e1) ==
    [emitida |-> TRUE, valor |-> valor, activa |-> activa,
     antes |-> <<e0.theta, e0.label>>, despues |-> <<e1.theta, e1.label>>]

\* cambiar_angulo_manual without its test of animacion_activa
cambiar_angulo_manual_sin_guarda(activa, e0, valor) ==
    [theta |-> deg2rad(valor), label |-> valor, dib |-> deg2rad(valor)]

\* the slot of slider_angulo.valueChanged, on e0 = [theta, label, dib]
cambiar_angulo_manual(activa, e0, valor) ==
    IF ~activa
    THEN [theta |-> deg2rad(valor), label |-> valor, dib |-> deg2rad(valor)]
    ELSE e0

\* slider_angulo.setValue(v) called by a handler that has set theta_actual to
\* t: the slot runs inside the call when the value changes; then the handler
\* calls actualizar_grafico
FijarSlider(ev, t, v) ==
    LET nv == Acotar(v)
        e0 == [theta |-> t, label |-> label_angulo, dib |-> dibujado]
        e1 == IF nv # slider_angulo
              THEN cambiar_angulo_manual(animacion_activa, e0, nv)
              ELSE e0
    IN  /\ slider_angulo' = nv
        /\ theta_actual' = e1.theta
        /\ label_angulo' = e1.label
        /\ dibujado' = e1.theta
        /\ senal' = IF nv # slider_angulo
                    THEN Senal(nv, animacion_activa, e0, e1)
                    ELSE SinSenal
        /\ evento' = ev

ValoresSlider == {0, 1, 180, 359, 360}
ValoresVelocidad == {10}

AnimIdle ==
    /\ theta_actual = Cero
    /\ animacion_activa = FALSE
    /\ slider_angulo = 0
    /\ slider_habilitado = TRUE
    /\ label_angulo = 0
    /\ timer_activo = FALSE
    /\ timer_intervalo = 0
    /\ velocidad_animacion = VelocidadInicial
    /\ dibujado = Cero
    /\ evento = "init"
    /\ senal = SinSenal

toggle_animacion ==
    /\ animacion_activa' = ~animacion_activa
    /\ IF animacion_activa'
       THEN /\ timer_activo' = TRUE
            /\ timer_intervalo' = velocidad_animacion
            /\ slider_habilitado' = FALSE
       ELSE /\ timer_activo' = FALSE
            /\ slider_habilitado' = TRUE
            /\ UNCHANGED timer_intervalo
    /\ evento' = "toggle"
    /\ senal' = SinSenal
    /\ UNCHANGED <<theta_actual, slider_angulo, label_angulo,
                   velocidad_animacion, dibujado>>
    /\ UNCHANGED <<cfgVars, histVars, pcr, solveVars, sweepVars, metricVars>>

reiniciar_animacion ==
    /\ FijarSlider("reset", Cero, 0)
    /\ UNCHANGED <<animacion_activa, slider_habilitado, timer_activo,
                   timer_intervalo, velocidad_animacion>>
    /\ UNCHANGED <<cfgVars, histVars, pcr, solveVars, sweepVars, metricVars>>

\* theta_actual += np.deg2rad(2), back to 0 unless below 2 * np.pi,
\* with the reset only when the sum is above 2 * np.pi
avanzar_mayor_estricto(t) ==
    {IF MayorIgual(s, DosPi) /\ s # DosPi THEN Cero ELSE s : s \in Suma(t, PasoGrados)}

\* theta_actual += np.deg2rad(2); if theta_actual >= 2 * np.pi: theta_actual = 0
avanzar(t) ==
    {IF MayorIgual(s, DosPi) THEN Cero ELSE s : s \in Suma(t, PasoGrados)}

\* the slot of timer.timeout
actualizar_animacion ==
    /\ timer_activo
    /\ \E t \in avanzar(theta_actual) : \E v \in rad2deg_int(t) :
          FijarSlider("tick", t, v)
    /\ UNCHANGED <<animacion_activa, slider_habilitado, timer_activo,
                   timer_intervalo, velocidad_animacion>>
    /\ UNCHANGED <<cfgVars, histVars, pcr, solveVars, sweepVars, metricVars>>

\* the user moves the angle slider: valueChanged(valor) reaches its slot
mover_slider(valor) ==
    /\ slider_habilitado
    /\ valor # slider_angulo
    /\ LET e0 == [theta |-> theta_actual, label |-> label_angulo, dib |-> dibujado]
           e1 == cambiar_angulo_manual(animacion_activa, e0, valor)
       IN  /\ slider_angulo' = valor
           /\ theta_actual' = e1.theta
           /\ label_angulo' = e1.label
           /\ dibujado' = e1.dib
           /\ senal' = Senal(valor, animacion_activa, e0, e1)
    /\ evento' = "slider"
    /\ UNCHANGED <<animacion_activa, slider_habilitado, timer_activo,
                   timer_intervalo, velocidad_animacion>>
    /\ UNCHANGED <<cfgVars, histVars, pcr, solveVars, sweepVars, metricVars>>

cambiar_velocidad(valor) ==
    /\ velocidad_animacion' = 100 \div valor
    /\ timer_intervalo' = IF animacion_activa THEN velocidad_animacion'
                          ELSE timer_intervalo
    /\ evento' = "velocidad"
    /\ senal' = SinSenal
    /\ UNCHANGED <<theta_actual, animacion_activa, slider_angulo,
                   slider_habilitado, label_angulo, timer_activo, dibujado>>
    /\ UNCHANGED <<cfgVars, histVars, pcr, solveVars, sweepVars, metricVars>>

----------------------------------------------------------------------------
(* Specifications *)

SolveIdle ==
    /\ theta = <<0, 1>>
    /\ lib = [donde |-> {}, out |-> TodoConverge]
    /\ puntos = SinPuntos
    /\ ier = SinIer
    /\ pcs = "-"

SweepIdle ==
    /\ pct = "idle"
    /\ n_puntos = 0
    /\ thetas = <<>>
    /\ idx = 0
    /\ trayectoria = <<>>
    /\ usados = <<>>
    /\ fallos = <<>>
    /\ updIni = 0
    /\ ultimo = Nada

MetricIdle ==
    /\ longitud_paso = Fin(0)
    /\ altura_paso = Fin(0)
    /\ pcm = "-"

(* The configuration and its handlers, each handler atomic (one GUI thread). *)
InitCfg == InitConfig /\ SolveIdle /\ SweepIdle /\ MetricIdle /\ AnimIdle

NextConfig ==
    \/ \E nombre \in Ids, valor \in Valores : actualizar_longitud(nombre, valor)
    \/ \E valor \in Escalas : actualizar_escala(valor)
    \/ restaurar_originales
    \/ restaurar_paso

SpecConfig == InitCfg /\ [][NextConfig]_vars

(* One call of resolver_cinematica: the inputs are a configuration one setter *)
(* call away from the initial one, an angle, and the behaviour of fsolve.     *)
Angulos == {<<0, 1>>, <<1, 4>>, <<1, 2>>}

InitSolve ==
    /\ \E k \in Ids, v \in Valores \cup {Proporciones["a"]} :
          L = [Proporciones EXCEPT ![k] = v]
    /\ escala \in {EscalaInicial, NaN}
    /\ L_scaled = aplicar_escala(L, escala)
    /\ llamada = SinLlamada
    /\ informe = "ninguno"
    /\ antes = <<L, escala, L_scaled>>
    /\ nUpd = 0
    /\ pcr = 0
    /\ theta \in Angulos
    /\ \E o \in [D : Resultados("D"), E : Resultados("E"), F : Resultados("F")] :
          lib = [donde |-> {theta}, out |-> o]
    /\ puntos = SinPuntos
    /\ ier = SinIer
    /\ pcs = "llamar"
    /\ SweepIdle
    /\ MetricIdle
    /\ AnimIdle

NextSolve == Resolver

SpecSolve == InitSolve /\ [][NextSolve]_vars

(* Sweeps, with setter calls that may come between two solves of a sweep.    *)
(* fsolve fails at no angle, or at one angle on the system of the foot.      *)
LibBarrido ==
    {[donde |-> {}, out |-> TodoConverge]} \cup
    {[donde |-> {t}, out |-> [TodoConverge EXCEPT !["F"] = r]] :
        t \in {<<0, 1>>, <<1, 2>>, <<1, 1>>}, r \in {NoConverge, Lanza}}

LongitudesBarrido == {<<"a", Fin(100)>>, <<"b", NaN>>}
EscalasBarrido == {Fin(100)}

Init ==
    /\ InitConfig
    /\ theta = <<0, 1>>
    /\ lib \in LibBarrido
    /\ puntos = SinPuntos
    /\ ier = SinIer
    /\ pcs = "-"
    /\ SweepIdle
    /\ MetricIdle
    /\ AnimIdle

Next ==
    \/ \E c \in LongitudesBarrido : actualizar_longitud(c[1], c[2])
    \/ \E valor \in EscalasBarrido : actualizar_escala(valor)
    \/ \E n \in 1..MaxCount : calcular_trayectoria(n)
    \/ paso_trayectoria
    \/ retorno_trayectoria

Spec == Init /\ [][Next]_vars

(* One call of actualizar_informacion on a trajectory.  One sweep reads one  *)
(* configuration, so its samples are feet with two finite coordinates and    *)
(* NaN pairs, or (a NaN length) feet with a NaN coordinate and NaN pairs.    *)
Pies == {<<Fin(1000), Fin(200)>>, <<Fin(-500), Fin(-300)>>, <<Fin(250), Fin(10)>>}
PiesNaN == {<<NaN, Fin(200)>>}

Secuencias(S) == UNION {[1..n -> S] : n \in 1..MaxLen}

InitMetrics ==
    /\ InitConfig
    /\ SolveIdle
    /\ trayectoria \in Secuencias(Pies \cup {NaNPoint}) \cup
                       Secuencias(PiesNaN \cup {NaNPoint})
    /\ pct = "idle"
    /\ n_puntos = Len(trayectoria)
    /\ thetas = <<>>
    /\ idx = 0
    /\ usados = <<>>
    /\ fallos = <<>>
    /\ updIni = 0
    /\ ultimo = Nada
    /\ longitud_paso = Fin(0)
    /\ altura_paso = Fin(0)
    /\ pcm = "llamar"
    /\ AnimIdle

NextMetrics == actualizar_informacion

SpecMetrics == InitMetrics /\ [][NextMetrics]_vars

(* The animation controls: the events Qt delivers to the window, one handler *)
(* at a time, on the configuration the window is built with.                  *)
InitAnim == InitConfig /\ SolveIdle /\ SweepIdle /\ MetricIdle /\ AnimIdle

NextAnim ==
    \/ toggle_animacion
    \/ reiniciar_animacion
    \/ actualizar_animacion
    \/ \E valor \in ValoresSlider : mover_slider(valor)
    \/ \E valor \in ValoresVelocidad : cambiar_velocidad(valor)

SpecAnim == InitAnim /\ [][NextAnim]_vars

----------------------------------------------------------------------------
(* Claims *)

\* C1 (as claimed): a setter called with a non-finite or non-positive value
\* reports InvalidParameter and leaves L, escala and L_scaled as they were.
C1_Original ==
    (llamada.op \in {"actualizar_longitud", "actualizar_escala"}
        /\ Invalido(llamada.valor))
    => (informe = "InvalidParameter" /\ <<L, escala, L_scaled>> = antes)

\* C2: after construction and after any sequence of length updates, scale
\* updates and restores (also between two turns of the restore loop, where the
\* redraw reads), every identifier k has L_scaled[k] = L[k] * escala.
C2_Escalado ==
    /\ DOMAIN L_scaled = Ids
    /\ \A k \in Ids : L_scaled[k] = Mul(L[k], escala)

\* a scale update came after a length update, and both show in L_scaled
C2_Testigo ==
    /\ nUpd = 2
    /\ llamada.op = "actualizar_escala"
    /\ escala = Fin(100)
    /\ L["b"] = Fin(2000)
    /\ L_scaled["b"] = Fin(20000)
    /\ L_scaled["a"] = Fin(3800)

\* C3 (as claimed): a sweep of count samples solves at the angles i/count of a
\* turn, i = 0..count-1: the whole turn is never sampled and no two samples
\* are the same pose.
C3_Original ==
    pct = "loop" =>
        /\ \A i \in DOMAIN thetas : RatEq(thetas[i], <<i - 1, n_puntos>>)
        /\ \A i \in DOMAIN thetas : ~RatEq(thetas[i], <<1, 1>>)
        /\ \A i, j \in DOMAIN thetas : i # j => ~MismaPose(thetas[i], thetas[j])

\* C3 (amended): a sweep of count samples solves, in order, at the angles
\* i/(count-1) of a turn, i = 0..count-1 (at the single angle 0 when count is
\* 1): angle 0 is the first sample, consecutive samples are 1/(count-1) of a
\* turn apart, for count >= 2 the last sample is the whole turn, and the only
\* two samples of a sweep with the same pose are its first and its last.
C3_Teorema ==
    pct = "loop" =>
        /\ Len(thetas) = n_puntos
        /\ RatEq(thetas[1], <<0, 1>>)
        /\ \A i \in 1..(n_puntos - 1) :
              RatEq(RatSub(thetas[i + 1], thetas[i]), <<1, n_puntos - 1>>)
        /\ n_puntos >= 2 => RatEq(thetas[n_puntos], <<1, 1>>)
        /\ \A i, j \in DOMAIN thetas :
              i < j => (MismaPose(thetas[i], thetas[j]) <=> (i = 1 /\ j = n_puntos))
        /\ Len(usados) = idx - 1
        /\ \A i \in DOMAIN usados : usados[i].t = thetas[i]

\* a sweep of three samples has solved its last sample, at the whole turn
C3_Testigo ==
    /\ pct = "loop"
    /\ n_puntos = 3
    /\ idx = 4
    /\ RatEq(usados[2].t, <<1, 2>>)
    /\ RatEq(usados[3].t, <<1, 1>>)

\* C4 (as claimed): a sweep returns count entries in angle order; the entry of
\* a sample whose solve failed (a root-find that did not converge, or a
\* raise) is the NaN pair, and every other entry is the foot of its own angle.
C4_Original ==
    pct = "loop" =>
        /\ Len(trayectoria) = idx - 1
        /\ idx > Len(thetas) => Len(trayectoria) = n_puntos
        /\ \A i \in DOMAIN trayectoria :
              IF fallos[i] # "ok"
              THEN trayectoria[i] = NaNPoint
              ELSE trayectoria[i] =
                     resolver_cinematica(usados[i].L, thetas[i],
                                         LibOut(lib, thetas[i])).puntos["F"]

\* C5 (as claimed): the returned snapshot has the six names, and each of D, E,
\* F whose root-find did not converge is undefined (NaN) in it.
C5_Original ==
    pcs = "ret" =>
        /\ DOMAIN puntos = Nombres
        /\ \A j \in Joints : ier[j] # "conv" => HasNaN(puntos[j])

Definida(p) == ~HasNaN(p)
Definidas(tr) == {i \in DOMAIN tr : Definida(tr[i])}
Mayor(S) == CHOOSE m \in S : \A w \in S : w <= m
Menor(S) == CHOOSE m \in S : \A w \in S : m <= w

\* C7 (as claimed): with fewer than two defined samples both metrics are
\* undefined (NaN), never a number.
C7_Original ==
    (pcm = "ret" /\ Cardinality(Definidas(trayectoria)) < 2)
    => (IsNaN(longitud_paso) /\ IsNaN(altura_paso))

\* C8: with at least two defined samples, the step length is (max x - min x)/10
\* and the step height (max y)/10 over the defined samples alone; they are the
\* values the trajectory gives with its undefined entries taken out.
C8_Metricas ==
    (pcm = "ret" /\ Cardinality(Definidas(trayectoria)) >= 2)
    => LET xs == {trayectoria[i][1].v : i \in Definidas(trayectoria)}
           ys == {trayectoria[i][2].v : i \in Definidas(trayectoria)}
       IN  /\ longitud_paso = Fin((Mayor(xs) - Menor(xs)) \div 10)
           /\ altura_paso = Fin(Mayor(ys) \div 10)
           /\ longitud_paso = longitud(SelectSeq(trayectoria, Definida))
           /\ altura_paso = altura(SelectSeq(trayectoria, Definida))

\* the metrics of a trajectory with an undefined entry between two defined ones
C8_Testigo ==
    /\ pcm = "ret"
    /\ Len(trayectoria) = 3
    /\ Definida(trayectoria[1])
    /\ trayectoria[2] = NaNPoint
    /\ Definida(trayectoria[3])
    /\ trayectoria[1] # trayectoria[3]

\* C9, first part: a sweep that ends, no configuration handler having run
\* since an earlier sweep of the same count began, holds the sequence that
\* sweep returned, whatever sweeps were run between the two.
C9_Iguales ==
    (pct = "loop" /\ idx > Len(thetas) /\ ultimo.n = n_puntos /\ ultimo.ini = nUpd)
    => trayectoria = ultimo.tray

\* C9, second part: a step that is not a configuration handler (a solve of a
\* sweep, its start, its return) leaves L, escala and L_scaled alone.
C9_Marco == [][nUpd' = nUpd => UNCHANGED cfgVars]_vars

\* C9: two sweeps with no configuration change between them return identical
\* sequences, and no solve or sweep changes the configuration.
C9_Teorema == []C9_Iguales /\ C9_Marco

\* after a configuration change, a sweep of three samples was run twice
C9_Testigo ==
    /\ pct = "loop"
    /\ idx > Len(thetas)
    /\ n_puntos = 3
    /\ ultimo.n = 3
    /\ ultimo.ini = nUpd
    /\ nUpd > 0
    /\ \E i \in DOMAIN fallos : fallos[i] = "raise"
    /\ trayectoria = ultimo.tray

\* C10 (as claimed): every sample of a sweep is solved with the scaled lengths
\* in effect when the sweep began, so that all the samples of one sweep are
\* solved with the same scaled lengths.
C10_Original ==
    pct = "loop" => \A i, j \in DOMAIN usados : usados[i].L = usados[j].L

\* C11, the signals: a valueChanged signal delivered while the animation is
\* active (raised by the setValue of the timer tick or of the reset button)
\* leaves theta_actual and the angle label as its slot found them.
C11_Senal == (senal.emitida /\ senal.activa) => senal.despues = senal.antes

\* C11, the frame: while the animation is active a step that changes
\* theta_actual is the timer tick or reiniciar_animacion, and no step changes
\* the angle label.
C11_Marco ==
    [][animacion_activa =>
          /\ theta_actual' # theta_actual => evento' \in {"tick", "reset"}
          /\ label_angulo' = label_angulo]_vars

\* C11: while animacion_activa is true no slider value change modifies
\* theta_actual or the angle label, the re-entrant signals of the timer tick
\* and of the reset button included; only the timer tick and
\* reiniciar_animacion change theta_actual in that state.
C11_Teorema == []C11_Senal /\ C11_Marco

\* a timer tick moved the slider to a value that is neither the angle in
\* degrees nor the number on the label, and its signal reached the slot
C11_Testigo ==
    /\ evento = "tick"
    /\ animacion_activa
    /\ senal.emitida
    /\ senal.activa
    /\ senal.valor # theta_actual.g
    /\ senal.valor # label_angulo
    /\ slider_angulo = senal.valor

\* C12, the range: theta_actual lies in [0, 2*pi], and right after a timer
\* tick it is strictly below 2*pi.
C12_Rango ==
    /\ MayorIgual(theta_actual, Cero)
    /\ MayorIgual(DosPi, theta_actual)
    /\ evento = "tick" => ~MayorIgual(theta_actual, DosPi)

\* C12, the tick: a timer tick adds 2 degrees to theta_actual and sets it to 0
\* when the sum is 2*pi or more.
C12_Paso ==
    [][evento' = "tick" =>
          \E s \in Suma(theta_actual, 2) :
              theta_actual' = IF MayorIgual(s, deg2rad(360)) THEN deg2rad(0) ELSE s]_vars

\* C12: after any sequence of play/pause, timer-tick, manual-slider and reset
\* events theta_actual lies in [0, 2*pi] (0 to 360 degrees); each timer tick
\* advances it by 2 degrees and resets it to 0 when the sum reaches or passes
\* 360 degrees, so right after a tick it is strictly below 360 degrees.
C12_Teorema == []C12_Rango /\ C12_Paso

\* the slider was put on 360 degrees by hand, the animation was started, and
\* the first timer tick took theta_actual back to 0
C12_Testigo ==
    /\ evento = "tick"
    /\ theta_actual = Cero
    /\ label_angulo = 360
    /\ slider_angulo = 0
    /\ senal.emitida

====
